---- MODULE Spec2Model ----
(***************************************************************************)
(* Model of the scripts of LDG_Clarity_Intiative:                          *)
(*   Simulation_Model: analyze_dimensions.py, scripts/visualize_grid.py,   *)
(*     visualize_3d_grid_voxel.py, visualize_3d_grid_pyvista.py;           *)
(*   Production_Data and Tracer_Data:                                      *)
(*     scripts/download_and_generate_mastersheet.py;                       *)
(*   Temperature_Log: scripts/process_temperature_profile.py.              *)
(* One run = one script (or one direct call of a function) on one input.   *)
(* Numbers that are floats in the scripts are kept exact: a rational is a  *)
(* pair <<numerator, denominator>>, and the interpolated field is kept as  *)
(* integer numerators over one common denominator.                         *)
(***************************************************************************)
EXTENDS Integers, Sequences, FiniteSets, TLC

VARIABLES
    entry,      \* which script / function this run executes
    pc,         \* position of the run
    err,        \* exception that ended the run ("none" while there is none)
    file,       \* the input text file: [ncols, rows]
    data,       \* the array np.loadtxt returned: [shape, a]
    ret,        \* what read_and_analyze_dat_file returned: [nx, ny, nz, x, y, z, values]
    report,     \* what the dimension code printed: [labels, total, factors, dim]
    stats,      \* what analyze_distribution printed
    args,       \* arguments of the visualize_* call: [threshold, resolution]
    field,      \* interpolated_values: [den, a], a[<<p,q,s>>] = numerator at array index [p,q,s]
    mask,       \* voxel script: mask[<<p,q,s>>]
    colors,     \* voxel script: alpha channel of colors[<<p,q,s>>], a rational
    grid,       \* the pyvista dataset: [dimensions, origin, spacing, values, shown]
    opacity,    \* visualize_grid.py: the per-point opacity sequence (rationals)
    divzero,    \* TRUE once a division with a zero denominator has been evaluated
    saved,      \* names of the output files written by the run
    env,        \* what the data scripts meet: bucket, files, failures to come
    attempted,  \* download_from_gcp: the file names a download was attempted for
    downloaded_files,   \* download_from_gcp: the list it builds and returns
    handles,    \* the input files currently open for reading
    workbook,   \* the output workbook: [exists, sheets, complete]
    wells,      \* process_temperature_profile: the sorted unique wells
    done_wells  \* process_temperature_profile: how many wells the sheet loop has passed

\* the variables of the data scripts
ioVars == <<env, attempted, downloaded_files, handles, workbook, wells, done_wells>>

vars == <<entry, pc, err, file, data, ret, report, stats, args, field, mask,
          colors, grid, opacity, divzero, saved, env, attempted, downloaded_files,
          handles, workbook, wells, done_wells>>

(***************************************************************************)
(* Bounds of the model                                                     *)
(***************************************************************************)
\* largest row count of a file without coordinate columns
MaxN == 1000
\* largest row count of a coordinate file given to visualize_grid.py / analyze_dimensions.py
MaxRows == 2
\* largest lattice resolution passed to visualize_with_threshold / visualize_with_pyvista
MaxRes == 3
\* longest value sequence passed to analyze_distribution when it is called directly
MaxLen == 3
\* longest list of file names passed to download_from_gcp
MaxFiles == 2
\* largest number of data rows of the temperature profile CSV
MaxTempRows == 2

(***************************************************************************)
(* Program constants                                                       *)
(***************************************************************************)
\* threshold = 100 inside analyze_distribution
AnalyzeThreshold == 100
\* np.where(values < 1000, 0, 0.7)
OpacityCut == 1000
\* f'Well_{...}'[:31]
SheetNameLimit == 31

(***************************************************************************)
(* Small helpers                                                           *)
(***************************************************************************)
Range(s) == {s[i] : i \in 1..Len(s)}

RECURSIVE SumSeq(_)
SumSeq(s) == IF s = <<>> THEN 0 ELSE Head(s) + SumSeq(Tail(s))

MinOf(S) == CHOOSE m \in S : \A v \in S : m <= v
MaxOf(S) == CHOOSE m \in S : \A v \in S : m >= v

\* equality and order of rationals <<n, d>> with d > 0
RatEq(p, q) == p[1] * q[2] = q[1] * p[2]
RatLeq(p, q) == p[1] * q[2] <= q[1] * p[2]

\* int(np.sqrt(n)) and int(np.cbrt(n)) for n >= 0: the truncated real root
isqrt(n) == CHOOSE d \in 0..n : d * d <= n /\ (d + 1) * (d + 1) > n
icbrt(n) == CHOOSE d \in 0..n : d * d * d <= n /\ (d + 1) * (d + 1) * (d + 1) > n

(***************************************************************************)
(* np.loadtxt: the array a text file loads to.  With the default ndmin=0   *)
(* axes of length one are squeezed away, so a one-column or one-row file   *)
(* is a 1-D array and a single number is a 0-d array.                      *)
(***************************************************************************)
loadtxt(f) ==
    LET n == Len(f.rows)
        c == f.ncols
    IN  IF n = 0 THEN [shape |-> <<0>>, a |-> <<>>]
        ELSE IF n = 1 /\ c = 1 THEN [shape |-> <<>>, a |-> <<f.rows[1][1]>>]
        ELSE IF n = 1 THEN [shape |-> <<c>>, a |-> f.rows[1]]
        ELSE IF c = 1 THEN [shape |-> <<n>>, a |-> [i \in 1..n |-> f.rows[i][1]]]
        ELSE [shape |-> <<n, c>>, a |-> f.rows]

\* data[:, j] of a 2-D array (j counted from 0 as in the source)
Column(d, j) == [i \in 1..d.shape[1] |-> d.a[i][j + 1]]

\* len(np.unique(col))
NUnique(col) == Cardinality(Range(col))

(***************************************************************************)
(* Input files                                                             *)
(***************************************************************************)
Bit == {0, 1}

\* files without coordinate columns: one or two columns, content never read
FlatFiles ==
    {[ncols |-> c, rows |-> [i \in 1..n |-> [j \in 1..c |-> 0]]] :
        c \in {1, 2}, n \in 0..MaxN}

\* values around the opacity cut of visualize_grid.py
GridVals == {OpacityCut - 1, OpacityCut, OpacityCut + 1}

CoordRows3 == {<<x, y, z>> : x \in Bit, y \in Bit, z \in Bit}
CoordRows4 == {<<r[1], r[2], r[3], v>> : r \in CoordRows3, v \in GridVals}

RECURSIVE SeqsUpTo(_, _)
SeqsUpTo(S, n) ==
    IF n = 0 THEN {<<>>}
    ELSE LET shorter == SeqsUpTo(S, n - 1)
         IN  shorter \cup {Append(s, e) : s \in {t \in shorter : Len(t) = n - 1}, e \in S}

CoordFiles ==
    {[ncols |-> 3, rows |-> r] : r \in SeqsUpTo(CoordRows3, MaxRows)}
    \cup {[ncols |-> 4, rows |-> r] : r \in SeqsUpTo(CoordRows4, MaxRows)}

\* sample values of the permeability files, and the box the samples span
Vals == {50, 250}
\* values of a sequence handed to analyze_distribution directly
StatVals == Vals \cup {100, 150}
Boxes == {<<1, 1, 1>>, <<2, 1, 1>>}
\* boxes without volume: the samples lie in a plane, on a line
FlatBoxes == {<<1, 1, 0>>, <<1, 0, 0>>}
CornerBits == <<<<0, 0, 0>>, <<1, 0, 0>>, <<0, 1, 0>>, <<1, 1, 0>>,
                <<0, 0, 1>>, <<1, 0, 1>>, <<0, 1, 1>>, <<1, 1, 1>>>>
BoxCorner(box, i) == <<CornerBits[i][1] * box[1], CornerBits[i][2] * box[2],
                       CornerBits[i][3] * box[3]>>

\* permeability files: eight samples on the corners of a box (of a flat box:
\* each corner twice or four times), with or without the value column
FieldFiles ==
    {[ncols |-> 4,
      rows |-> [i \in 1..8 |-> <<BoxCorner(box, i)[1], BoxCorner(box, i)[2],
                                 BoxCorner(box, i)[3], v[i]>>]] :
        box \in Boxes \cup FlatBoxes, v \in [1..8 -> Vals]}
    \cup {[ncols |-> 3, rows |-> [i \in 1..8 |-> BoxCorner(box, i)]] : box \in Boxes}

Thresholds == {100, 150, 250}
Resolutions == 1..MaxRes

NoRet == [nx |-> 0, ny |-> 0, nz |-> 0, x |-> <<>>, y |-> <<>>, z |-> <<>>, values |-> <<>>]
NoReport == [labels |-> {}, total |-> 0, factors |-> {}, dim |-> 0]
NoStats == [labels |-> {}, min |-> 0, max |-> 0, mean |-> <<0, 1>>, median |-> <<0, 1>>,
            threshold |-> 0, count |-> 0, percentage |-> <<0, 1>>, unique |-> {}]
NoArgs == [threshold |-> 0, resolution |-> 0]
NoField == [den |-> 1, a |-> <<>>]
NoGrid == [dimensions |-> <<>>, origin |-> <<>>, spacing |-> <<>>, values |-> <<>>,
           shown |-> {}]

(***************************************************************************)
(* analyze_dimensions.py                                                   *)
(***************************************************************************)
analyze_dat_file ==
    /\ entry = "analyze_dimensions"
    /\ pc = "start"
    /\ LET d == loadtxt(file)
       IN  /\ data' = d
           /\ IF Len(d.shape) < 2
              THEN \* data.shape[1]: IndexError, tuple index out of range
                   /\ report' = [NoReport EXCEPT !.labels = {"shape"}]
                   /\ err' = "IndexError"
                   /\ pc' = "raised"
              ELSE IF d.shape[2] >= 3
              THEN /\ report' = [NoReport EXCEPT !.labels = {"shape", "unique", "range"}]
                   /\ err' = "none"
                   /\ pc' = "done"
              ELSE /\ report' = [labels |-> {"shape", "1D", "total", "possible cubic dimension"},
                                 total |-> d.shape[1],
                                 factors |-> {},
                                 dim |-> icbrt(d.shape[1])]
                   /\ err' = "none"
                   /\ pc' = "done"
           /\ ret' = IF Len(d.shape) >= 2 /\ d.shape[2] >= 3
                     THEN [NoRet EXCEPT !.nx = NUnique(Column(d, 0)),
                                        !.ny = NUnique(Column(d, 1)),
                                        !.nz = NUnique(Column(d, 2))]
                     ELSE NoRet
    /\ UNCHANGED <<entry, file, stats, args, field, mask, colors, grid, opacity,
                   divzero, saved>>
    /\ UNCHANGED ioVars

(***************************************************************************)
(* scripts/visualize_grid.py                                               *)
(***************************************************************************)
\* the factor loop: for i in range(1, int(np.sqrt(total_size)) + 1)
Factors(total_size) == {i \in 1..isqrt(total_size) : total_size % i = 0}

\* np.where(values < 1000, 0, 0.7), one value
OpacityOf(v) == IF v < OpacityCut THEN <<0, 1>> ELSE <<7, 10>>

grid_read_and_analyze_dat_file ==
    /\ entry = "visualize_grid"
    /\ pc = "start"
    /\ LET d == loadtxt(file)
           total_size == d.shape[1]
           dim == icbrt(total_size)
       IN  /\ data' = d
           /\ IF Len(d.shape) < 2
              THEN \* data.shape[1]: IndexError, tuple index out of range
                   /\ report' = NoReport
                   /\ ret' = NoRet
                   /\ err' = "IndexError"
                   /\ pc' = "raised"
              ELSE IF d.shape[2] >= 3
              THEN /\ report' = [NoReport EXCEPT !.labels = {"grid dimensions detected"}]
                   /\ ret' = [nx |-> NUnique(Column(d, 0)),
                              ny |-> NUnique(Column(d, 1)),
                              nz |-> NUnique(Column(d, 2)),
                              x |-> Column(d, 0), y |-> Column(d, 1), z |-> Column(d, 2),
                              values |-> IF d.shape[2] >= 4
                                         THEN Column(d, 3)
                                         ELSE [i \in 1..d.shape[1] |-> 1]]
                   /\ err' = "none"
                   /\ pc' = "returned"
              ELSE IF dim * dim * dim = total_size
              THEN /\ report' = [labels |-> {"total", "possible factors", "cubic grid"},
                                 total |-> total_size,
                                 factors |-> Factors(total_size),
                                 dim |-> dim]
                   /\ ret' = [NoRet EXCEPT !.nx = dim, !.ny = dim, !.nz = dim,
                                           !.values = d.a]
                   /\ err' = "none"
                   /\ pc' = "returned"
              ELSE /\ report' = [labels |-> {"total", "possible factors"},
                                 total |-> total_size,
                                 factors |-> Factors(total_size),
                                 dim |-> 0]
                   /\ ret' = NoRet
                   /\ err' = "ValueError"
                   /\ pc' = "raised"
    /\ UNCHANGED <<entry, file, stats, args, field, mask, colors, grid, opacity,
                   divzero, saved>>
    /\ UNCHANGED ioVars

\* the module-level statements after the call: the StructuredGrid, the opacity, the plot
visualize_grid_main ==
    /\ entry = "visualize_grid"
    /\ pc = "returned"
    /\ IF data.shape[2] < 3
       THEN \* grid.points = data[:, :3] has two columns: pyvista rejects the points
            /\ err' = "ValueError"
            /\ pc' = "raised"
            /\ UNCHANGED <<grid, opacity>>
       ELSE /\ grid' = [NoGrid EXCEPT !.dimensions = <<ret.nx, ret.ny, ret.nz>>,
                                      !.values = ret.values]
            /\ opacity' = [i \in 1..Len(ret.values) |-> OpacityOf(ret.values[i])]
            /\ err' = "none"
            /\ pc' = "done"
    /\ UNCHANGED <<entry, file, data, ret, report, stats, args, field, mask, colors,
                   divzero, saved>>
    /\ UNCHANGED ioVars

(***************************************************************************)
(* numpy / scipy operations shared by visualize_3d_grid_voxel.py and       *)
(* visualize_3d_grid_pyvista.py                                            *)
(***************************************************************************)
\* common denominator of np.linspace(lo, hi, n): the step is (hi - lo) / (n - 1)
Den(n) == IF n = 1 THEN 1 ELSE n - 1

\* np.linspace(lo, hi, n), n >= 1, as numerators over Den(n); linspace(lo, hi, 1) = [lo]
linspace(lo, hi, n) == [i \in 1..n |-> lo * Den(n) + (i - 1) * (hi - lo)]

\* np.meshgrid(x_grid, y_grid, z_grid) with the default indexing='xy':
\* the arrays have shape (len(y_grid), len(x_grid), len(z_grid)) and
\* X[p,q,s] = x_grid[q], Y[p,q,s] = y_grid[p], Z[p,q,s] = z_grid[s]
meshgrid(x_grid, y_grid, z_grid) ==
    [idx \in {<<p, q, s>> : p \in 0..(Len(y_grid) - 1), q \in 0..(Len(x_grid) - 1),
                            s \in 0..(Len(z_grid) - 1)} |->
        <<x_grid[idx[2] + 1], y_grid[idx[1] + 1], z_grid[idx[3] + 1]>>]

Idx(n) == {<<p, q, s>> : p \in 0..(n - 1), q \in 0..(n - 1), s \in 0..(n - 1)}

\* A.flatten(): C order, the last index runs fastest
FlattenC(A, n) ==
    [k \in 1..(n * n * n) |->
        A[<<(k - 1) \div (n * n), ((k - 1) \div n) % n, (k - 1) % n>>]]

\* A.flatten(order="F"): Fortran order, the first index runs fastest
FlattenF(A, n) ==
    [k \in 1..(n * n * n) |->
        A[<<(k - 1) % n, ((k - 1) \div n) % n, (k - 1) \div (n * n)>>]]

\* flat.reshape(n, n, n): C order
Reshape(flat, n) == [idx \in Idx(n) |-> flat[idx[1] * n * n + idx[2] * n + idx[3] + 1]]

(***************************************************************************)
(* scipy.interpolate.griddata(points, values, xi, method='linear'):        *)
(* barycentric interpolation over the Delaunay triangulation of points.    *)
(* The model covers point sets that are the eight corners of a box.  The   *)
(* corners are cospherical, so the triangulation is not unique: tri names  *)
(* the corner whose main diagonal the six tetrahedra share.  Query points  *)
(* are numerators over den.  In the tetrahedron holding the query point    *)
(* the value is                                                            *)
(*   V(c0)(1 - m1) + V(c1)(m1 - m2) + V(c2)(m2 - m3) + V(c3) m3            *)
(* with m1 >= m2 >= m3 the box-relative coordinates seen from tri and      *)
(* c0..c3 the corners met walking from tri along the axes in that order.   *)
(***************************************************************************)
Diagonals == {<<0, 0, 0>>, <<0, 1, 0>>, <<0, 0, 1>>, <<0, 1, 1>>}
Perms3 == {<<1, 2, 3>>, <<1, 3, 2>>, <<2, 1, 3>>, <<2, 3, 1>>, <<3, 1, 2>>, <<3, 2, 1>>}
Flip(c, a) == [c EXCEPT ![a] = 1 - c[a]]

\* the value at query point q, given the box [lo, hi] of the points and the
\* value cv[c] of the sample at corner c
LinearInterp(lo, hi, cv, q, den, tri) ==
    LET n == [a \in 1..3 |-> (q[a] - lo[a] * den) \div (hi[a] - lo[a])]
        m == [a \in 1..3 |-> IF tri[a] = 0 THEN n[a] ELSE den - n[a]]
        g == CHOOSE h \in Perms3 : m[h[1]] >= m[h[2]] /\ m[h[2]] >= m[h[3]]
        c0 == tri
        c1 == Flip(c0, g[1])
        c2 == Flip(c1, g[2])
        c3 == Flip(c2, g[3])
    IN  cv[c0] * (den - m[g[1]]) + cv[c1] * (m[g[1]] - m[g[2]])
          + cv[c2] * (m[g[2]] - m[g[3]]) + cv[c3] * m[g[3]]

\* the bounding box of the points and the sample value at each of its corners
BoxLo(points) == [a \in 1..3 |-> MinOf({points[i][a] : i \in 1..Len(points)})]
BoxHi(points) == [a \in 1..3 |-> MaxOf({points[i][a] : i \in 1..Len(points)})]
CornerValues(points, values, lo, hi) ==
    [c \in {<<p, q, s>> : p \in Bit, q \in Bit, s \in Bit} |->
        values[CHOOSE i \in 1..Len(points) :
                 \A a \in 1..3 : points[i][a] = lo[a] + c[a] * (hi[a] - lo[a])]]

\* determinant of the 3x3 matrix with rows u, v, w
Det3(u, v, w) ==
    u[1] * (v[2] * w[3] - v[3] * w[2]) - u[2] * (v[1] * w[3] - v[3] * w[1])
      + u[3] * (v[1] * w[2] - v[2] * w[1])
Minus(p, q) == <<p[1] - q[1], p[2] - q[2], p[3] - q[3]>>

\* the points are rank-deficient: no four of them span a tetrahedron with volume
Degenerate(points) ==
    \A i \in 1..Len(points), j \in 1..Len(points), k \in 1..Len(points),
       l \in 1..Len(points) :
       (i < j /\ j < k /\ k < l) =>
       Det3(Minus(points[j], points[i]), Minus(points[k], points[i]),
            Minus(points[l], points[i])) = 0

\* griddata builds LinearNDInterpolator(points, values), whose Delaunay
\* triangulation is computed by Qhull: for rank-deficient points Qhull finds no
\* initial simplex and scipy raises QhullError out of griddata
QhullFails(points) == Degenerate(points)

\* the interpolated values, for points that do triangulate: every lattice
\* point lies in the box the corners span, so fill_value is never used.
\* (f @@ <<>> is f itself, tabulated once; the singleton sets bind the box and
\* the corner values once for all query points)
griddata(points, values, xi, den, tri) ==
    CHOOSE r \in UNION {{[k \in 1..Len(xi) |-> LinearInterp(lo, hi, cv, xi[k], den, tri)] :
                           cv \in {CornerValues(points, values, lo, hi) @@ <<>>}} :
                        lo \in {BoxLo(points) @@ <<>>},
                        hi \in {BoxHi(points) @@ <<>>}} : TRUE

\* the lines both visualize_* functions start with: bounding box, lattice,
\* meshgrid, interpolation, reshape.  The result is interpolated_values as
\* numerators over Den(resolution).
Interpolated(x, y, z, values, resolution, tri) ==
    LET x_grid == linspace(MinOf(Range(x)), MaxOf(Range(x)), resolution)
        y_grid == linspace(MinOf(Range(y)), MaxOf(Range(y)), resolution)
        z_grid == linspace(MinOf(Range(z)), MaxOf(Range(z)), resolution)
        XYZ == meshgrid(x_grid, y_grid, z_grid)
        points == [i \in 1..Len(x) |-> <<x[i], y[i], z[i]>>]
        grid_points == FlattenC(XYZ, resolution)
        flat == griddata(points, values, grid_points, Den(resolution), tri)
    IN  Reshape(flat, resolution)

(***************************************************************************)
(* analyze_distribution(values), the same text in both scripts             *)
(***************************************************************************)
Median(values) ==
    LET s == SortSeq(values, LAMBDA a, b : a < b)
        n == Len(s)
    IN  IF n % 2 = 1 THEN <<s[(n + 1) \div 2], 1>>
        ELSE <<s[n \div 2] + s[n \div 2 + 1], 2>>

CountAbove(values, threshold) ==
    Cardinality({i \in 1..Len(values) : values[i] > threshold})

analyze_distribution(values) ==
    IF Len(values) = 0
    THEN \* values.min() of an empty array raises ValueError
         [err |-> "ValueError", stats |-> [NoStats EXCEPT !.labels = {"header"}]]
    ELSE LET threshold == AnalyzeThreshold
             count == CountAbove(values, threshold)
         IN  [err |-> "none",
              stats |-> [labels |-> {"header", "min", "max", "mean", "median", "above"}
                                    \cup (IF count > 0 THEN {"unique"} ELSE {}),
                         min |-> MinOf(Range(values)),
                         max |-> MaxOf(Range(values)),
                         mean |-> <<SumSeq(values), Len(values)>>,
                         median |-> Median(values),
                         threshold |-> threshold,
                         count |-> count,
                         percentage |-> <<count * 100, Len(values)>>,
                         unique |-> IF count > 0
                                    THEN {values[i] : i \in {j \in 1..Len(values) :
                                                               values[j] > threshold}}
                                    ELSE {}]]

\* points = np.column_stack((x, y, z)) of the run, as griddata receives them
SamplePoints == [n \in 1..Len(ret.x) |-> <<ret.x[n], ret.y[n], ret.z[n]>>]

\* read_and_analyze_dat_file of the two scripts: the four columns, or IndexError
\* when the array has fewer than two axes or fewer than four columns
ReadColumns(f) ==
    LET d == loadtxt(f)
    IN  IF Len(d.shape) < 2 \/ d.shape[2] < 4
        THEN [err |-> "IndexError", ret |-> NoRet]
        ELSE [err |-> "none",
              ret |-> [NoRet EXCEPT !.x = Column(d, 0), !.y = Column(d, 1),
                                    !.z = Column(d, 2), !.values = Column(d, 3)]]

(***************************************************************************)
(* visualize_3d_grid_voxel.py                                              *)
(***************************************************************************)
voxel_read_and_analyze_dat_file ==
    /\ entry = "voxel"
    /\ pc = "start"
    /\ data' = loadtxt(file)
    /\ ret' = ReadColumns(file).ret
    /\ err' = ReadColumns(file).err
    /\ pc' = IF ReadColumns(file).err = "none" THEN "analyze" ELSE "raised"
    /\ UNCHANGED <<entry, file, report, stats, args, field, mask, colors, grid, opacity,
                   divzero, saved>>
    /\ UNCHANGED ioVars

voxel_analyze_distribution ==
    /\ entry \in {"voxel", "voxel.analyze_distribution"}
    /\ pc = "analyze"
    /\ stats' = analyze_distribution(ret.values).stats
    /\ err' = analyze_distribution(ret.values).err
    /\ pc' = IF analyze_distribution(ret.values).err # "none" THEN "raised"
             ELSE IF entry = "voxel" THEN "visualize" ELSE "done"
    /\ UNCHANGED <<entry, file, data, ret, report, args, field, mask, colors, grid,
                   opacity, divzero, saved>>
    /\ UNCHANGED ioVars

\* mask = interpolated_values > threshold (the same expression gives grid)
Selected(v, den, threshold) == v > threshold * den

\* normalized_values = (interpolated_values - threshold) / (max_val - threshold), one value
Normalized(v, max_val, den, threshold) == <<v - threshold * den, max_val - threshold * den>>

\* the alpha channel with the mask forgotten: normalized_values at every index
AlphaUnmasked(v, max_val, den, threshold) == Normalized(v, max_val, den, threshold)

\* the alpha channel of colors: zeros, then colors[mask] = normalized_values[mask]
Alpha(v, max_val, den, threshold) ==
    IF Selected(v, den, threshold) THEN Normalized(v, max_val, den, threshold) ELSE <<0, 1>>

visualize_with_threshold ==
    /\ entry = "voxel"
    /\ pc = "visualize"
    /\ \E threshold \in Thresholds, resolution \in Resolutions :
         /\ args' = [threshold |-> threshold, resolution |-> resolution]
         /\ IF QhullFails(SamplePoints)
            THEN \* griddata raises; nothing catches it
                 /\ err' = "QhullError"
                 /\ pc' = "raised"
                 /\ UNCHANGED <<field, mask, colors, divzero>>
            ELSE \E tri \in Diagonals :
                   \E interpolated_values \in
                         {Interpolated(ret.x, ret.y, ret.z, ret.values, resolution, tri)
                            @@ <<>>} :
                     \E max_val \in
                           {MaxOf({interpolated_values[idx] : idx \in Idx(resolution)})} :
                        /\ field' = [den |-> Den(resolution), a |-> interpolated_values]
                        /\ mask' = [idx \in Idx(resolution) |->
                                      Selected(interpolated_values[idx], Den(resolution),
                                               threshold)]
                        /\ colors' = [idx \in Idx(resolution) |->
                                        Alpha(interpolated_values[idx], max_val,
                                              Den(resolution), threshold)]
                        /\ divzero' = (max_val - threshold * Den(resolution) = 0)
                        /\ err' = "none"
                        /\ pc' = "done"
    /\ UNCHANGED <<entry, file, data, ret, report, stats, grid, opacity, saved>>
    /\ UNCHANGED ioVars

(***************************************************************************)
(* visualize_3d_grid_pyvista.py                                            *)
(***************************************************************************)
pyvista_read_and_analyze_dat_file ==
    /\ entry = "pyvista"
    /\ pc = "start"
    /\ data' = loadtxt(file)
    /\ ret' = ReadColumns(file).ret
    /\ err' = ReadColumns(file).err
    /\ pc' = IF ReadColumns(file).err = "none" THEN "analyze" ELSE "raised"
    /\ UNCHANGED <<entry, file, report, stats, args, field, mask, colors, grid, opacity,
                   divzero, saved>>
    /\ UNCHANGED ioVars

pyvista_analyze_distribution ==
    /\ entry \in {"pyvista", "pyvista.analyze_distribution"}
    /\ pc = "analyze"
    /\ stats' = analyze_distribution(ret.values).stats
    /\ err' = analyze_distribution(ret.values).err
    /\ pc' = IF analyze_distribution(ret.values).err # "none" THEN "raised"
             ELSE IF entry = "pyvista" THEN "plot" ELSE "done"
    /\ UNCHANGED <<entry, file, data, ret, report, args, field, mask, colors, grid,
                   opacity, divzero, saved>>
    /\ UNCHANGED ioVars

plot_permeability_distribution ==
    /\ entry = "pyvista"
    /\ pc = "plot"
    /\ saved' = saved \cup {"distribution.png"}
    /\ pc' = "visualize"
    /\ UNCHANGED <<entry, err, file, data, ret, report, stats, args, field, mask, colors,
                   grid, opacity, divzero>>
    /\ UNCHANGED ioVars

\* grid.threshold([threshold, max]): the scalars kept are those in the closed range
InRange(v, lower, upper) == lower <= v /\ v <= upper
Threshed(point_values, lower, upper) ==
    {k \in 1..Len(point_values) : InRange(point_values[k], lower, upper)}

visualize_with_pyvista ==
    /\ entry = "pyvista"
    /\ pc = "visualize"
    /\ \E threshold \in Thresholds, resolution \in Resolutions :
         /\ args' = [threshold |-> threshold, resolution |-> resolution]
         /\ IF QhullFails(SamplePoints)
            THEN \* griddata raises; nothing catches it
                 /\ err' = "QhullError"
                 /\ pc' = "raised"
                 /\ UNCHANGED <<field, grid, divzero>>
            ELSE \E tri \in Diagonals :
                   \E interpolated_values \in
                         {Interpolated(ret.x, ret.y, ret.z, ret.values, resolution, tri)
                            @@ <<>>} :
                     \E point_values \in {FlattenF(interpolated_values, resolution)} :
                        LET x_min == MinOf(Range(ret.x))
                            x_max == MaxOf(Range(ret.x))
                            y_min == MinOf(Range(ret.y))
                            y_max == MaxOf(Range(ret.y))
                            z_min == MinOf(Range(ret.z))
                            z_max == MaxOf(Range(ret.z))
                        IN  /\ field' = [den |-> Den(resolution), a |-> interpolated_values]
                            /\ grid' = [dimensions |-> <<resolution, resolution, resolution>>,
                                        origin |-> <<x_min, y_min, z_min>>,
                                        spacing |-> <<<<x_max - x_min, resolution - 1>>,
                                                      <<y_max - y_min, resolution - 1>>,
                                                      <<z_max - z_min, resolution - 1>>>>,
                                        values |-> point_values,
                                        shown |-> Threshed(point_values,
                                                           threshold * Den(resolution),
                                                           MaxOf(Range(point_values)))]
                            /\ divzero' = (resolution - 1 = 0)
                            /\ err' = "none"
                            /\ pc' = "done"
    /\ UNCHANGED <<entry, file, data, ret, report, stats, mask, colors, opacity, saved>>
    /\ UNCHANGED ioVars

(***************************************************************************)
(* Production_Data/scripts/download_and_generate_mastersheet.py and        *)
(* Tracer_Data/scripts/download_and_generate_mastersheet.py                *)
(* A file name in the bucket is <<prefix, stem, extension>>; a local path  *)
(* is <<folder, stem, extension>>.                                         *)
(***************************************************************************)
\* the variables of the Simulation_Model scripts
simVars == <<file, data, ret, report, stats, args, field, mask, colors, grid, opacity,
             divzero>>

NoEnv == [client_ok |-> TRUE, file_names |-> <<>>, failing |-> {}]

\* names in the bucket: two wells under the prefix, one of them also without it
FileNames == {<<"Eagle_Vision_Working_Data_Warehouse/", "13-7", ".json">>,
              <<"Eagle_Vision_Working_Data_Warehouse/", "17-7", ".json">>,
              <<"", "13-7", ".json">>}
\* FILE_NAME of the Tracer script
TracerName == <<"Eagle_Vision_Working_Data_Warehouse/", "Tracer_Data_Compiled", ".xlsx">>

\* what the Production script can meet: whether storage.Client() works, the
\* requested names, the positions whose download raises, the files that
\* process_json cannot process
ProductionEnvs ==
    {[client_ok |-> c, file_names |-> f, failing |-> d, bad_json |-> b] :
        c \in BOOLEAN, f \in SeqsUpTo(FileNames, MaxFiles),
        d \in SUBSET (1..MaxFiles), b \in SUBSET {"13-7", "17-7"}}

\* what the Tracer script can meet: the download, whether the input opens as a
\* workbook, whether it has the Overview and the 'Raw data' sheets, the years
TracerEnvs ==
    {[client_ok |-> c, file_names |-> <<TracerName>>, failing |-> d, openable |-> o,
      has_overview |-> v, has_raw |-> r, years |-> y] :
        c \in BOOLEAN, d \in SUBSET {1}, o \in BOOLEAN, v \in BOOLEAN, r \in BOOLEAN,
        y \in {<<>>, <<2020>>, <<2020, 2021>>}}

\* wells of the temperature profile, and its rows: the well and whether the
\* four numeric columns of the row clean to numbers
Wells == {<<"A", "/", "1">>, <<"A", "_", "1">>, <<"B">>}
TempRows == {[well |-> w, valid |-> v] : w \in Wells, v \in BOOLEAN}

\* what process_temperature_profile can meet: the rows, the step that raises
\* outside the loop over the wells (if any), the wells whose sheet raises
TemperatureEnvs ==
    {[rows |-> r, fault |-> f, failing_wells |-> w] :
        r \in SeqsUpTo(TempRows, MaxTempRows),
        f \in {"none", "read", "writer", "summary", "close"},
        w \in SUBSET Wells}
NoWorkbook == [exists |-> FALSE, sheets |-> <<>>, complete |-> FALSE]

\* os.path.basename(file_name)
basename(file_name) == <<file_name[2], file_name[3]>>
\* os.path.join(destination_folder, base)
join(folder, base) == <<folder, base[1], base[2]>>

\* the loop without the inner try: the first download that raises ends it
RECURSIVE DownloadLoopStopping(_, _, _, _)
DownloadLoopStopping(file_names, k, failing, destination_folder) ==
    IF k = 0 THEN [attempted |-> <<>>, downloaded_files |-> <<>>]
    ELSE LET before == DownloadLoopStopping(file_names, k - 1, failing, destination_folder)
             destination_file == join(destination_folder, basename(file_names[k]))
         IN  IF \E j \in 1..(k - 1) : j \in failing THEN before
             ELSE [attempted |-> Append(before.attempted, file_names[k]),
                   downloaded_files |->
                      IF k \in failing THEN before.downloaded_files
                      ELSE Append(before.downloaded_files, destination_file)]

\* the for loop of download_from_gcp over the first k names: a download that
\* raises is reported and the loop goes on with the next name
RECURSIVE DownloadLoop(_, _, _, _)
DownloadLoop(file_names, k, failing, destination_folder) ==
    IF k = 0 THEN [attempted |-> <<>>, downloaded_files |-> <<>>]
    ELSE LET before == DownloadLoop(file_names, k - 1, failing, destination_folder)
             destination_file == join(destination_folder, basename(file_names[k]))
         IN  [attempted |-> Append(before.attempted, file_names[k]),
              downloaded_files |->
                 IF k \in failing THEN before.downloaded_files
                 ELSE Append(before.downloaded_files, destination_file)]

\* download_from_gcp(bucket_name, file_names, destination_folder): what it
\* attempts, what it returns, whether it raises
download_from_gcp(e, destination_folder) ==
    IF ~e.client_ok
    THEN \* storage.Client() raises: reported and re-raised
         [attempted |-> <<>>, downloaded_files |-> <<>>, raised |-> TRUE]
    ELSE LET loop == DownloadLoop(e.file_names, Len(e.file_names), e.failing,
                                  destination_folder)
         IN  [attempted |-> loop.attempted,
              downloaded_files |-> IF loop.downloaded_files = <<>> THEN <<>>
                                   ELSE loop.downloaded_files,
              \* "No files were downloaded successfully"
              raised |-> loop.downloaded_files = <<>>]

production_download_from_gcp ==
    /\ entry = "production"
    /\ pc = "start"
    /\ attempted' = download_from_gcp(env, "RawData").attempted
    /\ downloaded_files' = download_from_gcp(env, "RawData").downloaded_files
    /\ err' = IF download_from_gcp(env, "RawData").raised THEN "Exception" ELSE "none"
    /\ pc' = IF download_from_gcp(env, "RawData").raised THEN "download raised"
             ELSE "downloaded"
    /\ UNCHANGED <<entry, saved, env, handles, workbook, wells, done_wells>>
    /\ UNCHANGED simVars

\* process_json(file_path): the handle it opens and has closed when it is left
\* (with open(...) as f), whether it raises (invalid JSON, no 'Date' column)
process_json(file_path, bad_json) ==
    [opened |-> {file_path}, closed |-> {file_path}, raised |-> file_path[2] \in bad_json]

\* os.path.basename(file_path).replace('.json', '')
well_name(file_path) ==
    IF file_path[3] = ".json" THEN file_path[2] ELSE <<file_path[2], file_path[3]>>

\* a writer that puts a new sheet in front of the sheets it has
to_excel_first(sheets, sheet_name) ==
    IF sheet_name \in Range(sheets) THEN sheets ELSE <<sheet_name>> \o sheets

\* df.to_excel(writer, sheet_name=...) of a writer in write mode: a new sheet
\* after the sheets it has, or the cells laid over the sheet of that name
to_excel(sheets, sheet_name) ==
    IF sheet_name \in Range(sheets) THEN sheets ELSE Append(sheets, sheet_name)

\* the for loop of combine_json_files over the first k paths: a file whose
\* processing raises is reported and skipped
RECURSIVE CombineLoop(_, _, _)
CombineLoop(file_paths, k, bad_json) ==
    IF k = 0 THEN [sheets |-> <<>>, opened |-> {}, closed |-> {}]
    ELSE LET before == CombineLoop(file_paths, k - 1, bad_json)
             df == process_json(file_paths[k], bad_json)
         IN  [sheets |-> IF df.raised THEN before.sheets
                         ELSE to_excel(before.sheets, well_name(file_paths[k])),
              opened |-> before.opened \cup df.opened,
              closed |-> before.closed \cup df.closed]

\* combine_json_files(file_paths, output_path).  pd.ExcelWriter creates the
\* output file; leaving the with block saves the workbook, and openpyxl
\* refuses to save a workbook without a sheet (IndexError).
combine_json_files ==
    /\ entry = "production"
    /\ pc = "downloaded"
    /\ LET loop == CombineLoop(downloaded_files, Len(downloaded_files), env.bad_json)
       IN  /\ handles' = (handles \cup loop.opened) \ loop.closed
           /\ IF loop.sheets = <<>>
              THEN /\ workbook' = [exists |-> TRUE, sheets |-> <<>>, complete |-> FALSE]
                   /\ err' = "IndexError"
                   /\ pc' = "raised"
                   /\ saved' = saved
              ELSE /\ workbook' = [exists |-> TRUE, sheets |-> loop.sheets,
                                   complete |-> TRUE]
                   /\ err' = "none"
                   /\ pc' = "done"
                   /\ saved' = saved \cup {"Production.xlsx"}
    /\ UNCHANGED <<entry, env, attempted, downloaded_files, wells, done_wells>>
    /\ UNCHANGED simVars

tracer_download_from_gcp ==
    /\ entry = "tracer"
    /\ pc = "start"
    /\ attempted' = download_from_gcp(env, "RawData").attempted
    /\ downloaded_files' = download_from_gcp(env, "RawData").downloaded_files
    /\ err' = IF download_from_gcp(env, "RawData").raised THEN "Exception" ELSE "none"
    /\ pc' = IF download_from_gcp(env, "RawData").raised THEN "download raised"
             ELSE "downloaded"
    /\ UNCHANGED <<entry, saved, env, handles, workbook, wells, done_wells>>
    /\ UNCHANGED simVars

\* INPUT_PATH of the Tracer script
TracerInput == <<"RawData", "Tracer_Data_Compiled", ".xlsx">>

\* excel_file = pd.ExcelFile(path): the handle it opens and the handle closed
\* by the time the constructor is left.  A file that is no workbook makes the
\* constructor close its handle and raise; otherwise the handle stays open
\* until excel_file.close() is called.
ExcelFile(path, openable) ==
    [opened |-> {path}, closed |-> IF openable THEN {} ELSE {path}, raised |-> ~openable]

\* the sheets process_excel_file writes: Overview if the input has it, then
\* one Data_<year> sheet per year of 'Raw data'; raised when 'Raw data' or
\* its Year column is missing
ExcelSheets(e) ==
    [sheets |-> (IF e.has_overview THEN <<"Overview">> ELSE <<>>)
                \o (IF e.has_raw THEN [n \in 1..Len(e.years) |-> <<"Data", e.years[n]>>]
                    ELSE <<>>),
     raised |-> ~e.has_raw]

\* process_excel_file(input_path, output_path).  excel_file is never closed:
\* whether its handle is still open once the function has been left depends
\* on when the interpreter finalizes the object, so both outcomes are kept.
process_excel_file ==
    /\ entry = "tracer"
    /\ pc = "downloaded"
    /\ LET excel_file == ExcelFile(TracerInput, env.openable)
           body == ExcelSheets(env)
       IN  IF excel_file.raised
           THEN /\ handles' = (handles \cup excel_file.opened) \ excel_file.closed
                /\ err' = "ValueError"
                /\ pc' = "raised"
                /\ UNCHANGED <<workbook, saved>>
           ELSE /\ \E finalized \in BOOLEAN :
                     handles' = IF finalized THEN handles
                                ELSE (handles \cup excel_file.opened) \ excel_file.closed
                /\ IF body.sheets = <<>>
                   THEN \* the with block is left, the save fails
                        /\ workbook' = [exists |-> TRUE, sheets |-> <<>>,
                                        complete |-> FALSE]
                        /\ err' = "IndexError"
                        /\ saved' = saved
                   ELSE /\ workbook' = [exists |-> TRUE, sheets |-> body.sheets,
                                        complete |-> TRUE]
                        /\ err' = IF body.raised THEN "ValueError" ELSE "none"
                        /\ saved' = saved \cup {"Tracer.xlsx"}
                /\ pc' = IF body.raised \/ body.sheets = <<>> THEN "raised" ELSE "done"
    /\ UNCHANGED <<entry, env, attempted, downloaded_files, wells, done_wells>>
    /\ UNCHANGED simVars

\* analyze_excel_file(file_path), called on its own: it prints and writes
\* nothing, and like process_excel_file never closes excel_file
analyze_excel_file ==
    /\ entry = "tracer.analyze_excel_file"
    /\ pc = "start"
    /\ LET excel_file == ExcelFile(TracerInput, env.openable)
       IN  IF excel_file.raised
           THEN /\ handles' = (handles \cup excel_file.opened) \ excel_file.closed
                /\ err' = "ValueError"
                /\ pc' = "raised"
           ELSE /\ \E finalized \in BOOLEAN :
                     handles' = IF finalized THEN handles
                                ELSE (handles \cup excel_file.opened) \ excel_file.closed
                /\ err' = "none"
                /\ pc' = "done"
    /\ UNCHANGED <<entry, saved, env, attempted, downloaded_files, workbook, wells,
                   done_wells>>
    /\ UNCHANGED simVars

(***************************************************************************)
(* Temperature_Log/scripts/process_temperature_profile.py                  *)
(* A well name is a sequence of characters.                                *)
(***************************************************************************)
\* code points of the characters used, for the order of sorted()
Ord(c) == CASE c = "/" -> 47 [] c = "1" -> 49 [] c = "A" -> 65 [] c = "B" -> 66
            [] c = "W" -> 87 [] c = "_" -> 95 [] c = "e" -> 101 [] c = "l" -> 108

\* u < v for strings
RECURSIVE StrLess(_, _)
StrLess(u, v) ==
    IF v = <<>> THEN FALSE
    ELSE IF u = <<>> THEN TRUE
    ELSE IF Head(u) # Head(v) THEN Ord(Head(u)) < Ord(Head(v))
    ELSE StrLess(Tail(u), Tail(v))

\* sorted(S) for a set of strings
sorted(S) ==
    CHOOSE q \in [1..Cardinality(S) -> S] :
       \A a, b \in 1..Cardinality(S) : a < b => StrLess(q[a], q[b])

\* f'Well_{str(well).replace("/", "_")}'[:31]
SheetName(well) ==
    LET name == <<"W", "e", "l", "l", "_">>
                   \o [n \in 1..Len(well) |-> IF well[n] = "/" THEN "_" ELSE well[n]]
    IN  SubSeq(name, 1, IF Len(name) < SheetNameLimit THEN Len(name) ELSE SheetNameLimit)

\* lines 35-64: read, clean, drop the invalid rows, list the wells
temperature_read_and_clean ==
    /\ entry = "temperature"
    /\ pc = "start"
    /\ IF env.fault = "read"
       THEN \* pd.read_csv raises, or a column is missing
            /\ err' = "OSError"
            /\ pc' = "raised"
            /\ wells' = <<>>
       ELSE IF env.rows = <<>>
       THEN \* df.iloc[0] of a frame without rows
            /\ err' = "IndexError"
            /\ pc' = "raised"
            /\ wells' = <<>>
       ELSE LET kept == {n \in 1..Len(env.rows) : env.rows[n].valid}
                found == sorted({env.rows[n].well : n \in kept})
            IN  /\ wells' = found
                /\ IF Len(found) = 0
                   THEN /\ err' = "ValueError"
                        /\ pc' = "raised"
                   ELSE /\ err' = "none"
                        /\ pc' = "writer"
    /\ UNCHANGED <<entry, saved, env, attempted, downloaded_files, handles, workbook,
                   done_wells>>
    /\ UNCHANGED simVars

\* lines 68-106: the writer is created, the Summary sheet is written
temperature_summary ==
    /\ entry = "temperature"
    /\ pc = "writer"
    /\ IF env.fault = "writer"
       THEN \* pd.ExcelWriter raises: nothing is created
            /\ err' = "OSError"
            /\ pc' = "raised"
            /\ UNCHANGED workbook
       ELSE IF env.fault = "summary"
       THEN \* the summary cannot be built; leaving the with block saves a
            \* workbook without sheets, which fails
            /\ err' = "IndexError"
            /\ pc' = "raised"
            /\ workbook' = [exists |-> TRUE, sheets |-> <<>>, complete |-> FALSE]
       ELSE /\ err' = "none"
            /\ pc' = "sheets"
            /\ workbook' = [exists |-> TRUE, sheets |-> to_excel(<<>>, <<"Summary">>),
                            complete |-> FALSE]
    /\ UNCHANGED <<entry, saved, env, attempted, downloaded_files, handles, wells,
                   done_wells>>
    /\ UNCHANGED simVars

\* lines 109-140: one pass of the loop over the wells; whatever is raised in
\* the pass is reported as a warning and the loop continues
temperature_well_sheet ==
    /\ entry = "temperature"
    /\ pc = "sheets"
    /\ done_wells < Len(wells)
    /\ LET well == wells[done_wells + 1]
       IN  workbook' = IF well \in env.failing_wells
                       THEN \* raised before the sheet exists
                            workbook
                       ELSE [workbook EXCEPT
                               !.sheets = to_excel(workbook.sheets, SheetName(well))]
    /\ done_wells' = done_wells + 1
    /\ UNCHANGED <<entry, pc, err, saved, env, attempted, downloaded_files, handles,
                   wells>>
    /\ UNCHANGED simVars

\* the end of the with block: the workbook is saved
temperature_save ==
    /\ entry = "temperature"
    /\ pc = "sheets"
    /\ done_wells = Len(wells)
    /\ IF env.fault = "close"
       THEN /\ err' = "OSError"
            /\ pc' = "raised"
            /\ UNCHANGED <<workbook, saved>>
       ELSE /\ err' = "none"
            /\ pc' = "done"
            /\ workbook' = [workbook EXCEPT !.complete = TRUE]
            /\ saved' = saved \cup {"Temperature_Profile.xlsx"}
    /\ UNCHANGED <<entry, env, attempted, downloaded_files, handles, wells, done_wells>>
    /\ UNCHANGED simVars

Init ==
    /\ \/ /\ entry \in {"analyze_dimensions", "visualize_grid"}
          /\ file \in FlatFiles \cup CoordFiles
          /\ pc = "start"
          /\ ret = NoRet
       \/ /\ entry \in {"voxel", "pyvista"}
          /\ file \in FieldFiles
          /\ pc = "start"
          /\ ret = NoRet
       \/ \* analyze_distribution called on its own with a value sequence
          /\ entry \in {"voxel.analyze_distribution", "pyvista.analyze_distribution"}
          /\ file = [ncols |-> 0, rows |-> <<>>]
          /\ pc = "analyze"
          /\ ret \in {[NoRet EXCEPT !.values = v] : v \in SeqsUpTo(StatVals, MaxLen)}
       \/ \* the data scripts
          /\ entry \in {"production", "tracer", "tracer.analyze_excel_file", "temperature"}
          /\ file = [ncols |-> 0, rows |-> <<>>]
          /\ pc = "start"
          /\ ret = NoRet
    /\ env \in CASE entry = "production" -> ProductionEnvs
               [] entry = "tracer" -> TracerEnvs
               [] entry = "tracer.analyze_excel_file" ->
                     {e \in TracerEnvs : e.client_ok /\ e.failing = {} /\ e.has_overview
                                           /\ e.has_raw /\ e.years = <<>>}
               [] entry = "temperature" -> TemperatureEnvs
               [] OTHER -> {NoEnv}
    /\ attempted = <<>>
    /\ downloaded_files = <<>>
    /\ handles = {}
    /\ workbook = NoWorkbook
    /\ wells = <<>>
    /\ done_wells = 0
    /\ err = "none"
    /\ data = [shape |-> <<>>, a |-> <<>>]
    /\ report = NoReport
    /\ stats = NoStats
    /\ args = NoArgs
    /\ field = NoField
    /\ mask = <<>>
    /\ colors = <<>>
    /\ grid = NoGrid
    /\ opacity = <<>>
    /\ divzero = FALSE
    /\ saved = {}

Next ==
    \/ analyze_dat_file
    \/ grid_read_and_analyze_dat_file
    \/ visualize_grid_main
    \/ voxel_read_and_analyze_dat_file
    \/ voxel_analyze_distribution
    \/ visualize_with_threshold
    \/ pyvista_read_and_analyze_dat_file
    \/ pyvista_analyze_distribution
    \/ plot_permeability_distribution
    \/ visualize_with_pyvista
    \/ production_download_from_gcp
    \/ combine_json_files
    \/ tracer_download_from_gcp
    \/ process_excel_file
    \/ analyze_excel_file
    \/ temperature_read_and_clean
    \/ temperature_summary
    \/ temperature_well_sheet
    \/ temperature_save

Spec == Init /\ [][Next]_vars

(***************************************************************************)
(* Properties                                                              *)
(***************************************************************************)
\* the run went through the branch for data without coordinate columns
FlatBranch == Len(data.shape) = 2 /\ data.shape[2] < 3
\* the run went through the branch for data with x, y, z columns
CoordBranch == Len(data.shape) = 2 /\ data.shape[2] >= 3
IsCube(n) == icbrt(n) * icbrt(n) * icbrt(n) = n
Divisors(n) == {i \in 1..n : n % i = 0}

\* C1: for a bare count N, (d,d,d) with d = floor(cbrt(N)) is returned exactly
\* when d*d*d = N and the call fails otherwise, and no script reports a cubic
\* dimension for an N that is not a perfect cube.
C1_CubicOnlyForPerfectCubes ==
    /\ (entry = "visualize_grid" /\ FlatBranch /\ pc = "returned") =>
          /\ IsCube(data.shape[1])
          /\ <<ret.nx, ret.ny, ret.nz>> = <<icbrt(data.shape[1]), icbrt(data.shape[1]),
                                            icbrt(data.shape[1])>>
    /\ (entry = "visualize_grid" /\ FlatBranch /\ pc = "raised" /\ ret = NoRet) =>
          ~IsCube(data.shape[1])
    /\ (report.labels \cap {"possible cubic dimension", "cubic grid"} # {}) =>
          report.dim * report.dim * report.dim = report.total

\* C2: with x, y, z columns the dimensions are the distinct-value counts of the
\* axes and are returned only when their product is the number of points.
C2_DimsOnlyForProductGrids ==
    (entry = "visualize_grid" /\ CoordBranch /\ pc = "returned") =>
       /\ ret.nx = NUnique(Column(data, 0))
       /\ ret.ny = NUnique(Column(data, 1))
       /\ ret.nz = NUnique(Column(data, 2))
       /\ ret.nx * ret.ny * ret.nz = data.shape[1]

\* C3: the factor list reported for a bare count N is the full set of positive
\* divisors of N, also when the cubic decomposition fails.
C3_FactorsAreAllDivisors ==
    /\ ("possible factors" \in report.labels) => report.factors = Divisors(report.total)
    /\ (entry = "visualize_grid" /\ FlatBranch /\ pc \in {"returned", "raised"}) =>
          "possible factors" \in report.labels

\* C4: a visualize_* call with a resolution below 2 fails with
\* InvalidResolutionError before a lattice, a field or a spacing is produced;
\* no division by (resolution - 1) = 0 is evaluated.
C4_DegenerateResolutionRejected ==
    (args # NoArgs /\ args.resolution < 2) =>
       /\ err = "InvalidResolutionError"
       /\ field = NoField
       /\ grid = NoGrid
       /\ ~divzero

\* C5: wherever a value is tested against the threshold, it is selected if and
\* only if it is strictly greater than the threshold.
C5_StrictThresholdEverywhere ==
    /\ (entry = "voxel" /\ pc = "done") =>
          \A idx \in DOMAIN mask :
             /\ mask[idx] <=> field.a[idx] > args.threshold * field.den
             /\ colors[idx][1] > 0 <=> field.a[idx] > args.threshold * field.den
    /\ (entry = "pyvista" /\ pc = "done") =>
          \A k \in 1..Len(grid.values) :
             k \in grid.shown <=> grid.values[k] > args.threshold * field.den
    /\ (entry = "visualize_grid" /\ pc = "done") =>
          \A i \in 1..Len(opacity) : opacity[i][1] > 0 <=> ret.values[i] > OpacityCut

\* C6: the number of true mask entries equals the count_above_threshold the
\* analyzer reported in the same run.  Stated for the runs with a resolution
\* of at least 2 in which the analyzer's threshold is the one the mask uses.
C6_MaskCardinalityIsCountAbove ==
    (entry = "voxel" /\ pc = "done" /\ args.resolution >= 2
       /\ stats.threshold = args.threshold) =>
       Cardinality({idx \in DOMAIN mask : mask[idx]}) = stats.count

\* a rational in [0, 1]
InUnit(p) == p[2] > 0 /\ 0 <= p[1] /\ p[1] <= p[2]
\* clamp(p, 0, 1) of a rational with a positive or negative denominator
Clamp01(p) ==
    LET q == IF p[2] < 0 THEN <<-p[1], -p[2]>> ELSE p
    IN  IF q[1] < 0 THEN <<0, 1>> ELSE IF q[1] > q[2] THEN <<1, 1>> ELSE q
FieldMax == MaxOf({field.a[idx] : idx \in DOMAIN field.a})
ClampFormula(idx) ==
    Clamp01(<<field.a[idx] - args.threshold * field.den,
              FieldMax - args.threshold * field.den>>)

C8_GuardedZeroRange ==
    (entry = "voxel" /\ pc = "done" /\ FieldMax = args.threshold * field.den) =>
       /\ ~divzero
       /\ \A idx \in DOMAIN colors : colors[idx][1] = 0

\* C9: count_above_threshold is the number of values strictly above the
\* caller's threshold, fraction_above_threshold is that count over len(values),
\* and an empty sequence is analyzed without a fault, with fraction 0.
C9_AnalyzeCountsAndEmpty ==
    /\ (entry \in {"voxel.analyze_distribution", "pyvista.analyze_distribution"}
          /\ pc \in {"done", "raised"}) =>
          /\ err = "none"
          /\ stats.count = CountAbove(ret.values, stats.threshold)
          /\ IF Len(ret.values) = 0
             THEN stats.percentage[1] = 0
             ELSE RatEq(stats.percentage, <<100 * stats.count, Len(ret.values)>>)
    /\ (entry \in {"voxel", "pyvista"} /\ pc = "done") =>
          /\ stats.threshold = args.threshold
          /\ stats.count = CountAbove(ret.values, args.threshold)

\* the value the ImageData holds at the lattice point with x-index i, y-index j,
\* z-index k (point ids run x fastest)
ValueAt(i, j, k) ==
    grid.values[i + grid.dimensions[1] * j
                  + grid.dimensions[1] * grid.dimensions[2] * k + 1]
\* lattice point (i, j, k) of the ImageData lies on the sample (sx, sy, sz)
Coincides(idx, smp) ==
    \A a \in 1..3 :
       IF grid.dimensions[a] = 1
       THEN idx[a] = 0 /\ smp[a] = grid.origin[a]
       ELSE grid.origin[a] * grid.spacing[a][2] + idx[a] * grid.spacing[a][1]
               = smp[a] * grid.spacing[a][2]

\* C10: at every lattice point of the resampled field that coincides with a
\* scattered sample, the field holds that sample's value.
C10_ExactAtSampleSites ==
    (entry = "pyvista" /\ pc = "done") =>
       \A idx \in Idx(args.resolution), n \in 1..Len(ret.values) :
          Coincides(idx, <<ret.x[n], ret.y[n], ret.z[n]>>) =>
             ValueAt(idx[1], idx[2], idx[3]) = ret.values[n] * field.den

\* the lattice coordinates (x_grid[i], y_grid[j], z_grid[k]) listed with the
\* x-index running fastest, as numerators over Den(n)
LatticeXFastest(n) ==
    LET x_grid == linspace(MinOf(Range(ret.x)), MaxOf(Range(ret.x)), n)
        y_grid == linspace(MinOf(Range(ret.y)), MaxOf(Range(ret.y)), n)
        z_grid == linspace(MinOf(Range(ret.z)), MaxOf(Range(ret.z)), n)
    IN  [k \in 1..(n * n * n) |->
           <<x_grid[((k - 1) % n) + 1], y_grid[(((k - 1) \div n) % n) + 1],
             z_grid[((k - 1) \div (n * n)) + 1]>>]
\* the interpolant evaluated at (x_grid[i], y_grid[j], z_grid[k]), x fastest
InterpolatedAtLattice(tri) ==
    griddata(SamplePoints, ret.values, LatticeXFastest(args.resolution),
             Den(args.resolution), tri)

\* C11: for every lattice index (i,j,k) the value the consumer reads at x-index
\* i, y-index j, z-index k (the ImageData point (i,j,k); the voxel drawn at
\* filled[i,j,k]) is the value interpolated at (x_grid[i], y_grid[j], z_grid[k]),
\* for the triangulation the interpolation used.
C11_AxisOrderConsistent ==
    /\ (entry = "pyvista" /\ pc = "done") =>
          \E tri \in Diagonals :
             \E expected \in {InterpolatedAtLattice(tri)} :
                \A idx \in Idx(args.resolution) :
                   ValueAt(idx[1], idx[2], idx[3])
                      = expected[idx[1] + args.resolution * idx[2]
                                   + args.resolution * args.resolution * idx[3] + 1]
    /\ (entry = "voxel" /\ pc = "done") =>
          \E tri \in Diagonals :
             \E expected \in {InterpolatedAtLattice(tri)} :
                \A idx \in Idx(args.resolution) :
                   field.a[idx]
                      = expected[idx[1] + args.resolution * idx[2]
                                   + args.resolution * args.resolution * idx[3] + 1]

\* C12: the ImageData of a resampled field has its origin at the minimum corner
\* of the samples' bounding box, dims >= 1, and on each axis a spacing that is
\* the number (max - min)/(dims - 1), so that origin + spacing*(dims - 1) is the
\* bounding-box maximum and origin + i*spacing is the i-th coordinate of the
\* linspace the interpolation used.
C12_GridSpecInvariant ==
    (entry = "pyvista" /\ pc = "done") =>
       \A a \in 1..3 :
          LET lo == BoxLo(SamplePoints)[a]
              hi == BoxHi(SamplePoints)[a]
              dim == grid.dimensions[a]
              spacing == grid.spacing[a]
              coords == linspace(lo, hi, dim)
          IN  /\ grid.origin[a] = lo
              /\ dim >= 1
              /\ spacing[2] # 0
              /\ spacing[1] * (dim - 1) = (hi - lo) * spacing[2]
              /\ grid.origin[a] * spacing[2] + spacing[1] * (dim - 1) = hi * spacing[2]
              /\ \A i \in 0..(dim - 1) :
                    (grid.origin[a] * spacing[2] + i * spacing[1]) * Den(dim)
                       = coords[i + 1] * spacing[2]

\* C13: a file of N >= 2 rows with the value column only is loaded and goes
\* through the branch without coordinates, which decomposes N: the run does not
\* fail on data.shape[1] and does not report or return per-axis unique counts.
C13_SingleColumnAccepted ==
    (entry \in {"analyze_dimensions", "visualize_grid"} /\ pc # "start"
       /\ file.ncols = 1 /\ Len(file.rows) >= 2) =>
       /\ err # "IndexError"
       /\ "total" \in report.labels
       /\ report.total = Len(file.rows)
       /\ report.labels \cap {"unique", "range", "grid dimensions detected"} = {}

\* C14: when the loaded samples have the three coordinate columns and no value
\* column, loading fails with an error raised to the caller: no values are
\* returned in place of the missing column and the run goes no further.
C14_MissingColumnFails ==
    (entry \in {"visualize_grid", "pyvista"} /\ pc # "start"
       /\ Len(data.shape) = 2 /\ data.shape[2] = 3) =>
       /\ pc = "raised"
       /\ err # "none"
       /\ ret.values = <<>>
       /\ opacity = <<>>

\* the visualize_* call of the run was made on rank-deficient samples
DegenerateCall ==
    /\ entry \in {"voxel", "pyvista"}
    /\ args # NoArgs
    /\ Degenerate(SamplePoints)

\* what the scripts do on rank-deficient samples: the call ends with the
\* QhullError of griddata, and no field, mask, colour array or ImageData exists
QhullErrorOnDegenerate ==
    DegenerateCall =>
       /\ pc = "raised"
       /\ err = "QhullError"
       /\ field = NoField
       /\ mask = <<>>
       /\ colors = <<>>
       /\ grid = NoGrid

\* C15: a resample of coplanar or colinear samples fails with
\* InterpolationDegenerateError and returns no field (so no field of fill
\* values).
C15_DegenerateErrorNamed ==
    DegenerateCall =>
       /\ err = "InterpolationDegenerateError"
       /\ field = NoField

\* C16: whatever the element-count ceiling, a dense lattice of
\* resolution^3 elements above it is allocated (the interpolated field exists)
\* only after the run has warned about the count; a rejected request allocates
\* nothing.
C16_CeilingBeforeAllocation ==
    (entry \in {"voxel", "pyvista"} /\ field # NoField) =>
       \A ceiling \in 1..(args.resolution * args.resolution * args.resolution) :
          (Cardinality(DOMAIN field.a) > ceiling) =>
             "element count above ceiling" \in (report.labels \cup stats.labels)

\* a file of the run that process_json could not load
LoadFailed ==
    \E k \in 1..Len(downloaded_files) : process_json(downloaded_files[k], env.bad_json).raised

\* C17: in a run in which a stage has failed no output file has been written:
\* the pyvista script that ends with an exception has saved no plot image
\* (stated for the calls with a resolution other than 1), and the Production
\* script in which the load of a file failed aborts without a workbook.
C17_NoPartialOutput ==
    /\ (entry = "pyvista" /\ err # "none" /\ args.resolution # 1) => saved = {}
    /\ (entry = "production" /\ pc \in {"done", "raised"} /\ LoadFailed) =>
          /\ pc = "raised"
          /\ saved = {}

\* a function that opens an input file has returned or raised
InputFunctionLeft ==
    \/ entry = "production" /\ pc \in {"done", "raised"}
    \/ entry = "tracer" /\ pc \in {"done", "raised"}
    \/ entry = "tracer.analyze_excel_file" /\ pc \in {"done", "raised"}

\* C18: once a function that opens an input file for reading has returned or
\* raised, no input file is open.
C18_InputHandlesReleased ==
    InputFunctionLeft => handles = {}

\* the positions of the requested names whose download succeeds, in request order
Succeeded(e) ==
    SelectSeq([k \in 1..Len(e.file_names) |-> k], LAMBDA k : k \notin e.failing)
\* the destination paths of those names
SucceededPaths(e) ==
    [j \in 1..Len(Succeeded(e)) |->
        <<"RawData", e.file_names[Succeeded(e)[j]][2], e.file_names[Succeeded(e)[j]][3]>>]

\* C19: download_from_gcp attempts every requested name whatever failed before
\* it; it returns exactly the destination paths of the names whose download
\* succeeded, in request order; it raises, returning nothing, exactly when no
\* download succeeded or the client could not be initialised.
C19_DownloadContract ==
    (entry \in {"production", "tracer"} /\ pc # "start") =>
       /\ env.client_ok => attempted = env.file_names
       /\ (pc = "download raised") <=> (~env.client_ok \/ Succeeded(env) = <<>>)
       /\ (pc = "download raised") => (downloaded_files = <<>> /\ err # "none")
       /\ (pc # "download raised") => downloaded_files = SucceededPaths(env)

\* C19 witness: of two requested names the first download failed, the second
\* was attempted all the same, and the list returned holds its path only
C19_Witness ==
    /\ entry = "production"
    /\ pc = "downloaded"
    /\ Len(env.file_names) = 2
    /\ env.failing = {1}
    /\ attempted = env.file_names
    /\ downloaded_files = <<<<"RawData", env.file_names[2][2], env.file_names[2][3]>>>>

\* the rows were read and cleaned, and dropna kept none of them
NoWellAfterCleaning ==
    /\ env.fault # "read"
    /\ env.rows # <<>>
    /\ \A n \in 1..Len(env.rows) : ~env.rows[n].valid

\* C20: when no well remains after cleaning, process_temperature_profile raises
\* ValueError and no workbook has been created; otherwise the first sheet of
\* the workbook is Summary, every well the loop has passed has its sheet unless
\* its own pass raised, a pass that raised leaves the run without an error, and
\* the run ends normally only if nothing outside the loop raised.
C20_TemperatureWorkbook ==
    (entry = "temperature") =>
       /\ (pc # "start" /\ NoWellAfterCleaning) =>
             /\ pc = "raised"
             /\ err = "ValueError"
             /\ workbook = NoWorkbook
       /\ (workbook.sheets # <<>>) => workbook.sheets[1] = <<"Summary">>
       /\ (pc \in {"sheets", "done"}) =>
             /\ err = "none"
             /\ \A k \in 1..done_wells :
                   (wells[k] \notin env.failing_wells) =>
                      SheetName(wells[k]) \in Range(workbook.sheets)
       /\ (pc = "done") => (env.fault = "none" /\ done_wells = Len(wells))
       /\ (pc = "raised") => (err # "none" /\ ~workbook.complete)

\* C20 witness: the sheet of the first of two wells raised, the run went on,
\* wrote the second well's sheet after Summary and saved the workbook
C20_Witness ==
    /\ entry = "temperature"
    /\ pc = "done"
    /\ Len(wells) = 2
    /\ wells[1] \in env.failing_wells
    /\ wells[2] \notin env.failing_wells
    /\ workbook.sheets = <<<<"Summary">>, SheetName(wells[2])>>
    /\ workbook.complete
====
